---- MODULE Spec2Model ----
(***************************************************************************)
(* md-pdf (src/src/md_pdf/__init__.py): the command line driver main, the  *)
(* conversion entry point convert and the helpers _font_face_css,          *)
(* _get_pygments_css and _build_html, as a state machine.                  *)
(*                                                                         *)
(* Text is modelled as a sequence of tokens: a path name and a formatted   *)
(* number as sequences of one-character strings, a stylesheet as a         *)
(* sequence of CSS tokens, an HTML document as a sequence of elements      *)
(* [tag, css].  A file is a sequence of blocks (Markdown source) or of     *)
(* chunks (PDF output).                                                    *)
(***************************************************************************)
EXTENDS Integers, Sequences, FiniteSets, TLC

\* ------------------------------------------------------------------ bounds
\* Longest Markdown source, in blocks.
MaxBlocks == 2
\* Number of write calls the rasterizer needs to store one PDF.
NumChunks == 2

\* ------------------------------------------------------------- characters
Lower == <<"a", "b", "d", "e", "f", "g", "h", "i", "j", "m", "n", "o", "p", "r", "s", "t", "u", "x">>
Upper == <<"A", "B", "D", "E", "F", "G", "H", "I", "J", "M", "N", "O", "P", "R", "S", "T", "U", "X">>
DigitStr == <<"0", "1", "2", "3", "4", "5", "6", "7", "8", "9">>

\* str.lower() on one character
LowerChar(c) ==
    IF \E i \in 1..Len(Upper) : Upper[i] = c
    THEN Lower[CHOOSE i \in 1..Len(Upper) : Upper[i] = c]
    ELSE c

\* str.lower()
StrLower(s) == [i \in 1..Len(s) |-> LowerChar(s[i])]

\* The code point order of the characters used in names: "-" < "." < digits
\* < upper case < lower case.
Ord(c) ==
    IF c = "-" THEN 45
    ELSE IF c = "." THEN 46
    ELSE IF \E i \in 1..10 : DigitStr[i] = c
         THEN 47 + (CHOOSE i \in 1..10 : DigitStr[i] = c)
    ELSE IF \E i \in 1..Len(Upper) : Upper[i] = c
         THEN 64 + (CHOOSE i \in 1..Len(Upper) : Upper[i] = c)
    ELSE IF \E i \in 1..Len(Lower) : Lower[i] = c
         THEN 96 + (CHOOSE i \in 1..Len(Lower) : Lower[i] = c)
    ELSE 128

\* Python's str "<": lexicographic by code point, a proper prefix first.
RECURSIVE StrLess(_, _)
StrLess(a, b) ==
    IF b = <<>> THEN FALSE
    ELSE IF a = <<>> THEN TRUE
    ELSE IF Ord(Head(a)) # Ord(Head(b)) THEN Ord(Head(a)) < Ord(Head(b))
    ELSE StrLess(Tail(a), Tail(b))

\* str.find(c): the first index of c in s, 0 when absent
Find(s, c) ==
    IF \E i \in 1..Len(s) : s[i] = c
    THEN CHOOSE i \in 1..Len(s) : s[i] = c /\ \A j \in 1..(i - 1) : s[j] # c
    ELSE 0

\* str.rfind(c): the last index of c in s, 0 when absent
RFind(s, c) ==
    IF \E i \in 1..Len(s) : s[i] = c
    THEN CHOOSE i \in 1..Len(s) : s[i] = c /\ \A j \in (i + 1)..Len(s) : s[j] # c
    ELSE 0

\* needle in s (substring test)
Contains(s, needle) ==
    \E i \in 0..(Len(s) - Len(needle)) :
        \A k \in 1..Len(needle) : s[i + k] = needle[k]

\* ------------------------------------------------------------------ paths
\* pathlib.PurePath.suffix of a file name: the last dot and what follows it,
\* empty when the name has no dot, starts with its only dot or ends with one.
Suffix(name) ==
    LET i == RFind(name, ".")
    IN  IF 1 < i /\ i < Len(name) THEN SubSeq(name, i, Len(name)) ELSE <<>>

\* pathlib.PurePath.stem
Stem(name) == SubSeq(name, 1, Len(name) - Len(Suffix(name)))

PdfSuffix == <<".", "p", "d", "f">>

\* input_path.with_suffix(".pdf") for a path with a non-empty name
WithSuffix(path, suffix) ==
    [parent |-> path.parent, name |-> Stem(path.name) \o suffix]

\* ------------------------------------------------------------ stylesheets
\* The three CSS constants: the structural rules and the two colour blocks.
GITHUB_CSS_BASE == <<"GITHUB_CSS_BASE">>
GITHUB_CSS_LIGHT == <<"GITHUB_CSS_LIGHT">>
GITHUB_CSS_DARK == <<"GITHUB_CSS_DARK">>

\* _EMOJI_UNICODE_RANGE, the fixed list of code point ranges
EMOJI_UNICODE_RANGE == "U+200D, U+203C, ..., U+1FA70-1FAFF"

TtfSuffix == <<".", "t", "t", "f">>

\* _FONTS_DIR.glob("*.ttf"): the names of the directory that end in ".ttf"
GlobTtf(dir) ==
    {n \in dir : Len(n) >= Len(TtfSuffix)
                 /\ SubSeq(n, Len(n) - Len(TtfSuffix) + 1, Len(n)) = TtfSuffix}

\* sorted(...): the names in ascending order
RECURSIVE Sorted(_)
Sorted(names) ==
    IF names = {} THEN <<>>
    ELSE LET least == CHOOSE n \in names : \A m \in names \ {n} : StrLess(n, m)
         IN  <<least>> \o Sorted(names \ {least})

\* stem.split("-")[0]
Family(stem) ==
    LET i == Find(stem, "-")
    IN  IF i = 0 THEN stem ELSE SubSeq(stem, 1, i - 1)

\* A variant of IsEmoji that compares without lowering the case.
IsEmoji_caseSensitive(family) == Contains(family, <<"e", "m", "o", "j", "i">>)

\* "emoji" in family.lower()
IsEmoji(family) == Contains(StrLower(family), <<"e", "m", "o", "j", "i">>)

\* ttf.as_uri()
AsUri(name) == <<"file://", "_FONTS_DIR", "/">> \o name

\* One @font-face rule, as the f-string of _font_face_css writes it.
FontFaceRule(ttf) ==
    LET family == Family(Stem(ttf))
        unicode_range ==
            IF IsEmoji(family)
            THEN <<"unicode-range:", EMOJI_UNICODE_RANGE, ";">>
            ELSE <<>>
    IN  <<"@font-face", "{", "font-family:", "DQUOTE">> \o family
        \o <<"DQUOTE", ";", "src:", "url(", "DQUOTE">> \o AsUri(ttf)
        \o <<"DQUOTE", ")", ";">> \o unicode_range \o <<"}">>

\* "\n".join(rules)
RECURSIVE JoinLines(_)
JoinLines(rules) ==
    IF rules = <<>> THEN <<>>
    ELSE IF Len(rules) = 1 THEN rules[1]
    ELSE rules[1] \o <<"NEWLINE">> \o JoinLines(Tail(rules))

\* _font_face_css()
FontFaceCss(dir) ==
    LET ttfs == Sorted(GlobTtf(dir))
    IN  JoinLines([i \in 1..Len(ttfs) |-> FontFaceRule(ttfs[i])])

\* _get_pygments_css(mode): the style definitions of the chosen Pygments
\* style, scoped to ".codehilite"
GetPygmentsCss(mode) ==
    LET style == IF mode = "LIGHT" THEN "default" ELSE "github-dark"
    IN  <<".codehilite", style>>

\* ------------------------------------------------------ document assembly
\* repr(float) of a number of tenths, as str.format writes it into the
\* f-string: -5 is "-0.5", 120 is "12.0".
RECURSIVE Digits(_)
Digits(n) ==
    IF n < 10 THEN <<DigitStr[n + 1]>>
    ELSE Digits(n \div 10) \o <<DigitStr[(n % 10) + 1]>>

\* A variant of FloatRepr that clamps a negative number to zero.
FloatRepr_clamped(tenths) ==
    LET a == IF tenths < 0 THEN 0 ELSE tenths
    IN  Digits(a \div 10) \o <<".", DigitStr[(a % 10) + 1]>>

FloatRepr(tenths) ==
    LET a == IF tenths < 0 THEN -tenths ELSE tenths
    IN  (IF tenths < 0 THEN <<"-">> ELSE <<>>)
        \o Digits(a \div 10) \o <<".", DigitStr[(a % 10) + 1]>>

El(tag) == [tag |-> tag, css |-> <<>>]
StyleEl(css) == [tag |-> "style", css |-> css]

\* A variant of ThemeCss that takes the light block for either mode.
ThemeCss_light(mode) == GITHUB_CSS_LIGHT

\* theme_css of _build_html
ThemeCss(mode) == IF mode = "LIGHT" THEN GITHUB_CSS_LIGHT ELSE GITHUB_CSS_DARK

\* page_size of _build_html
PageSize(size) == IF size = "LETTER" THEN "letter" ELSE "A4"

\* The @page rule of the template.
PageRule(size, margin) ==
    <<"@page", "{", "size:", PageSize(size), ";", "margin:">>
    \o FloatRepr(margin) \o <<"in", ";", "}">>

\* A variant of BuildHtml that puts the theme layer before the structural
\* one.
BuildHtml_reordered(body_html, pygments_css, mode, size, margin) ==
    <<El("<!DOCTYPE html>"), El("<html lang=en>"), El("<head>"),
      El("<meta charset=utf-8>"),
      StyleEl(PageRule(size, margin)),
      StyleEl(ThemeCss(mode)),
      StyleEl(GITHUB_CSS_BASE),
      StyleEl(pygments_css),
      El("</head>"), El("<body>")>>
    \o body_html
    \o <<El("</body>"), El("</html>")>>

\* _build_html(body_html, pygments_css, mode, size, margin)
BuildHtml(body_html, pygments_css, mode, size, margin) ==
    <<El("<!DOCTYPE html>"), El("<html lang=en>"), El("<head>"),
      El("<meta charset=utf-8>"),
      StyleEl(PageRule(size, margin)),
      StyleEl(GITHUB_CSS_BASE),
      StyleEl(ThemeCss(mode)),
      StyleEl(pygments_css),
      El("</head>"), El("<body>")>>
    \o body_html
    \o <<El("</body>"), El("</html>")>>

\* ------------------------------------------------- external collaborators
\* md.convert(md_text): a paragraph becomes a <p> element, a raw HTML block
\* (here a <style> element carrying an @page rule) passes through as it is.
RawStyle == StyleEl(<<"@page", "{", "size:", "A3", ";", "}">>)

MdConvert(md_text) ==
    [i \in 1..Len(md_text) |->
        IF md_text[i] = "rawstyle" THEN RawStyle ELSE El("p")]

\* HTML(string=full_html, base_url=...).write_pdf(..., stylesheets=[font_css]):
\* the bytes of the PDF, as the chunks the rasterizer writes one by one.
Rasterize(full_html, base_url, font_css) ==
    [k \in 1..NumChunks |->
        [html |-> full_html, base |-> base_url, fonts |-> font_css, n |-> k]]

\* ------------------------------------------------------------------ state
VARIABLES
    fs,            \* the file system: path -> content of the file there
    fs0,           \* the file system before any invocation started
    fontsDir,      \* the names in the bundled font directory _FONTS_DIR
    entry,         \* per invocation: "cli" (main) or "lib" (convert called)
    args,          \* per invocation: the arguments it was started with
    pc,            \* per invocation: where it stands
    input_path, output_path, md_text, body_html, pygments_css, full_html,
    font_css,      \* the locals of main and convert, per invocation
    pdf,           \* the rendered PDF the rasterizer is writing
    pos,           \* the offset of the rasterizer's open output file
    exc,           \* the exception convert raised, NoExc when none
    exit_code,     \* the exit status of main, -1 while it runs
    stderr,        \* what main printed to standard error
    steps,         \* the steps of convert the invocation has run, in order
    ioLog,         \* the file system operations it has performed, in order
    lastWriter,    \* the invocation that last wrote to a file, 0 when none
    overlapped     \* an output file was opened while another wrote to it

vars == <<fs, fs0, fontsDir, entry, args, pc, input_path, output_path,
          md_text, body_html, pygments_css, full_html, font_css, pdf, pos,
          exc, exit_code, stderr, steps, ioLog, lastWriter, overlapped>>

\* What an invocation never changes.
world == <<fs0, fontsDir, entry, args>>

\* ------------------------------------------------------------ the world
Path(parent, name) == [parent |-> parent, name |-> name]
NoPath == Path("", <<>>)
NoExc == [type |-> "", at |-> "", msg |-> "", path |-> NoPath]
NoOutput == [prefix |-> "", path |-> NoPath]

\* The directories that exist; every other parent is missing.
ExistingDirs == {"docs"}
SubDir == Path("docs", <<"s", "u", "b">>)
DirPaths == {SubDir}
FontsDirPath == Path("_FONTS_DIR", <<>>)

\* Input files: report-like, two suffixes, no suffix, dot file, trailing dot.
InR == Path("docs", <<"r", ".", "m", "d">>)
InAB == Path("docs", <<"a", ".", "b", ".", "m", "d">>)
InNoSuffix == Path("docs", <<"R">>)
InDotFile == Path("docs", <<".", "h">>)
InTrailingDot == Path("docs", <<"n", ".">>)
InMissing == Path("docs", <<"m", ".", "m", "d">>)
InputFiles == {InR, InAB, InNoSuffix, InDotFile, InTrailingDot}
Inputs == InputFiles \cup {InMissing, SubDir}

\* Output paths: an existing PDF, a new file, a file in a missing directory,
\* a directory.
OutOld == Path("docs", <<"o", ".", "p", "d", "f">>)
OutNew == Path("docs", <<"n", "e", "w", ".", "p", "d", "f">>)
OutNoDir == Path("gone", <<"o", ".", "p", "d", "f">>)
OutputPaths == {OutOld, OutNew, OutNoDir, SubDir}

\* args.output: None, the empty string, or a path.
OutputNone == [given |-> FALSE, parent |-> "", name |-> <<>>]
OutputArg(path) == [given |-> TRUE, parent |-> path.parent, name |-> path.name]
OutputEmpty == OutputArg(NoPath)

Blocks == {"para", "rawstyle"}
Contents == UNION {[1..n -> Blocks] : n \in 0..MaxBlocks}

\* The PDF already at OutOld, one chunk longer than a rendered one.
OldChunk == [html |-> <<>>, base |-> "", fonts |-> <<>>, n |-> 0]
OldPdf == [k \in 1..(NumChunks + 1) |-> OldChunk]

MkFs(c1, c2) ==
    [f \in InputFiles \cup {OutOld} |->
        IF f = OutOld THEN OldPdf ELSE IF f = InR THEN c1 ELSE c2]

ValidModes == {"LIGHT", "DARK"}
ValidSizes == {"LETTER", "A4"}
Modes == ValidModes \cup {"SEPIA"}
Sizes == ValidSizes \cup {"LEGAL"}
Margins == {-5, 0, 5, 120}

\* The font files a bundle may hold.
FontEmoji == <<"E", "m", "o", "j", "i", "-", "B", ".", "t", "t", "f">>
FontUpper == <<"a", "E", "M", "O", "J", "I", ".", "t", "t", "f">>
FontLate == <<"A", "-", "e", "m", "o", "j", "i", ".", "t", "t", "f">>
FontTwoHyphens == <<"a", "-", "b", "-", "B", ".", "t", "t", "f">>
FontDotted == <<"B", ".", "a", "-", "b", ".", "t", "t", "f">>
FontPlain == <<"S", "a", "n", "s", ".", "t", "t", "f">>
NotAFont == <<"o", ".", "t", "x", "t">>
FontFiles == {FontEmoji, FontUpper, FontLate, FontTwoHyphens, FontDotted,
              FontPlain, NotAFont}
BundledFonts == {FontEmoji, FontPlain, NotAFont}

\* ------------------------------------------------------------ file system
\* A variant of PathExists that takes every path to exist.
PathExists_always(path, files) == TRUE

\* Path.exists()
PathExists(path, files) == path \in DOMAIN files \/ path \in DirPaths

\* A variant of Truncate that opens an existing file without emptying it.
Truncate_keep(path, files) ==
    IF path \in DOMAIN files THEN files ELSE (path :> <<>>) @@ files

\* open(target, "wb"): create the file or truncate it
Truncate(path, files) == (path :> <<>>) @@ files

\* fd.write(chunk) at offset pos; a gap left by a truncation reads as holes
Hole == [html |-> <<>>, base |-> "", fonts |-> <<>>, n |-> -1]

WriteAt(content, at, chunk) ==
    LET n == IF Len(content) > at + 1 THEN Len(content) ELSE at + 1
    IN  [k \in 1..n |->
            IF k = at + 1 THEN chunk
            ELSE IF k <= Len(content) THEN content[k]
            ELSE Hole]

\* bool(args.output)
Truthy(output) == output.given /\ ~(output.parent = "" /\ output.name = <<>>)

\* ---------------------------------------------------------------- actions
Set(f, p, v) == [f EXCEPT ![p] = v]
Append1(f, p, v) == [f EXCEPT ![p] = Append(@, v)]
IoOp(op, path) == [op |-> op, path |-> path]

\* raise type(msg) out of convert, from the step named at
Raise(p, type, at, msg, path) ==
    /\ exc' = Set(exc, p, [type |-> type, at |-> at, msg |-> msg, path |-> path])
    /\ pc' = Set(pc, p, "raised")

\* main, up to the call of convert: parse_args (which ends the process with
\* status 2 on a --mode or --size outside the choices) and the two paths.
MainParse(p) ==
    /\ pc[p] = "main"
    /\ IF args[p].mode \notin ValidModes \/ args[p].size \notin ValidSizes
       THEN /\ exit_code' = Set(exit_code, p, 2)
            /\ stderr' = Set(stderr, p, [prefix |-> "usage: ", path |-> NoPath])
            /\ pc' = Set(pc, p, "exited")
            /\ UNCHANGED <<input_path, output_path>>
       ELSE /\ input_path' = Set(input_path, p, args[p].input)
            /\ output_path' = Set(output_path, p,
                   IF Truthy(args[p].output)
                   THEN Path(args[p].output.parent, args[p].output.name)
                   ELSE WithSuffix(args[p].input, PdfSuffix))
            /\ pc' = Set(pc, p, "convert")
            /\ UNCHANGED <<exit_code, stderr>>
    /\ UNCHANGED <<world, fs, md_text, body_html, pygments_css, full_html,
                   font_css, pdf, pos, exc, steps, ioLog, lastWriter, overlapped>>

\* convert: input_path = Path(input_path); output_path = Path(output_path)
ConvertEnter(p) ==
    /\ pc[p] = "convert"
    /\ IF entry[p] = "cli"
       THEN UNCHANGED <<input_path, output_path>>
       ELSE /\ input_path' = Set(input_path, p, args[p].input)
            /\ output_path' = Set(output_path, p,
                   Path(args[p].output.parent, args[p].output.name))
    /\ pc' = Set(pc, p, "exists")
    /\ UNCHANGED <<world, fs, md_text, body_html, pygments_css, full_html,
                   font_css, pdf, pos, exc, exit_code, stderr, steps, ioLog,
                   lastWriter, overlapped>>

\* if not input_path.exists(): raise FileNotFoundError(...)
CheckExists(p) ==
    /\ pc[p] = "exists"
    /\ steps' = Append1(steps, p, "exists")
    /\ ioLog' = Append1(ioLog, p, IoOp("stat", input_path[p]))
    /\ IF PathExists(input_path[p], fs)
       THEN pc' = Set(pc, p, "read") /\ UNCHANGED exc
       ELSE Raise(p, "FileNotFoundError", "exists", "Input file not found: ",
                  input_path[p])
    /\ UNCHANGED <<world, fs, input_path, output_path, md_text, body_html,
                   pygments_css, full_html, font_css, pdf, pos, exit_code,
                   stderr, lastWriter, overlapped>>

\* md_text = input_path.read_text(encoding="utf-8")
ReadInput(p) ==
    /\ pc[p] = "read"
    /\ steps' = Append1(steps, p, "read")
    /\ ioLog' = Append1(ioLog, p, IoOp("read", input_path[p]))
    /\ IF input_path[p] \in DirPaths
       THEN /\ Raise(p, "IsADirectoryError", "read", "Is a directory: ",
                     input_path[p])
            /\ UNCHANGED md_text
       ELSE IF input_path[p] \notin DOMAIN fs
       THEN /\ Raise(p, "FileNotFoundError", "read", "No such file or directory: ",
                     input_path[p])
            /\ UNCHANGED md_text
       ELSE /\ md_text' = Set(md_text, p, fs[input_path[p]])
            /\ pc' = Set(pc, p, "transform")
            /\ UNCHANGED exc
    /\ UNCHANGED <<world, fs, input_path, output_path, body_html,
                   pygments_css, full_html, font_css, pdf, pos, exit_code,
                   stderr, lastWriter, overlapped>>

\* md = markdown.Markdown(...); body_html = md.convert(md_text)
TransformStep(p) ==
    /\ pc[p] = "transform"
    /\ steps' = Append1(steps, p, "transform")
    /\ body_html' = Set(body_html, p, MdConvert(md_text[p]))
    /\ pc' = Set(pc, p, "css")
    /\ UNCHANGED <<world, fs, input_path, output_path, md_text, pygments_css,
                   full_html, font_css, pdf, pos, exc, exit_code, stderr,
                   ioLog, lastWriter, overlapped>>

\* pygments_css = _get_pygments_css(mode)
PygmentsStep(p) ==
    /\ pc[p] = "css"
    /\ steps' = Append1(steps, p, "css")
    /\ pygments_css' = Set(pygments_css, p, GetPygmentsCss(args[p].mode))
    /\ pc' = Set(pc, p, "build")
    /\ UNCHANGED <<world, fs, input_path, output_path, md_text, body_html,
                   full_html, font_css, pdf, pos, exc, exit_code, stderr,
                   ioLog, lastWriter, overlapped>>

\* full_html = _build_html(body_html, pygments_css, mode, size, margin)
BuildStep(p) ==
    /\ pc[p] = "build"
    /\ steps' = Append1(steps, p, "build")
    /\ full_html' = Set(full_html, p,
           BuildHtml(body_html[p], pygments_css[p], args[p].mode,
                     args[p].size, args[p].margin))
    /\ pc' = Set(pc, p, "fonts")
    /\ UNCHANGED <<world, fs, input_path, output_path, md_text, body_html,
                   pygments_css, font_css, pdf, pos, exc, exit_code, stderr,
                   ioLog, lastWriter, overlapped>>

\* font_css = CSS(string=_font_face_css(), font_config=font_config)
FontStep(p) ==
    /\ pc[p] = "fonts"
    /\ steps' = Append1(steps, p, "fonts")
    /\ ioLog' = Append1(ioLog, p, IoOp("scan", FontsDirPath))
    /\ font_css' = Set(font_css, p, FontFaceCss(fontsDir))
    /\ pc' = Set(pc, p, "render")
    /\ UNCHANGED <<world, fs, input_path, output_path, md_text, body_html,
                   pygments_css, full_html, pdf, pos, exc, exit_code, stderr,
                   lastWriter, overlapped>>

\* A variant of RenderStep that tries again when the rasterizer fails.
RenderStep_retry(p) ==
    /\ pc[p] = "render"
    /\ steps' = Append1(steps, p, "render")
    /\ \E ok \in BOOLEAN :
         IF ok
         THEN /\ pdf' = Set(pdf, p, Rasterize(full_html[p], input_path[p].parent,
                                              font_css[p]))
              /\ pc' = Set(pc, p, "open")
         ELSE UNCHANGED <<pdf, pc>>
    /\ UNCHANGED <<world, fs, input_path, output_path, md_text, body_html,
                   pygments_css, full_html, font_css, pos, exc, exit_code,
                   stderr, ioLog, lastWriter, overlapped>>

\* HTML(string=full_html, base_url=str(input_path.parent)).write_pdf(...),
\* first half: the rasterizer lays the document out, or fails.
RenderStep(p) ==
    /\ pc[p] = "render"
    /\ steps' = Append1(steps, p, "render")
    /\ \E ok \in BOOLEAN :
         IF ok
         THEN /\ pdf' = Set(pdf, p, Rasterize(full_html[p], input_path[p].parent,
                                              font_css[p]))
              /\ pc' = Set(pc, p, "open")
              /\ UNCHANGED exc
         ELSE /\ Raise(p, "RenderError", "render", "cannot render", NoPath)
              /\ UNCHANGED pdf
    /\ UNCHANGED <<world, fs, input_path, output_path, md_text, body_html,
                   pygments_css, full_html, font_css, pos, exit_code, stderr,
                   ioLog, lastWriter, overlapped>>

\* write_pdf(str(output_path)), second half: the rasterizer opens the target
\* for writing, which creates or truncates it.
OpenOutput(p) ==
    /\ pc[p] = "open"
    /\ steps' = Append1(steps, p, "write")
    /\ IF output_path[p].parent \notin ExistingDirs
       THEN /\ Raise(p, "FileNotFoundError", "write",
                     "No such file or directory: ", output_path[p])
            /\ UNCHANGED <<fs, pos, ioLog, lastWriter, overlapped>>
       ELSE IF output_path[p] \in DirPaths
       THEN /\ Raise(p, "IsADirectoryError", "write", "Is a directory: ",
                     output_path[p])
            /\ UNCHANGED <<fs, pos, ioLog, lastWriter, overlapped>>
       ELSE /\ fs' = Truncate(output_path[p], fs)
            /\ pos' = Set(pos, p, 0)
            /\ ioLog' = Append1(ioLog, p, IoOp("write", output_path[p]))
            /\ lastWriter' = p
            /\ overlapped' =
                 (overlapped \/ \E q \in DOMAIN pc \ {p} :
                      pc[q] = "write" /\ output_path[q] = output_path[p])
            /\ pc' = Set(pc, p, "write")
            /\ UNCHANGED exc
    /\ UNCHANGED <<world, input_path, output_path, md_text, body_html,
                   pygments_css, full_html, font_css, pdf, exit_code, stderr>>

\* write_pdf, the rest: one write call of the open file, which may fail; the
\* file is closed and convert returns after the last one.
WriteChunk(p) ==
    /\ pc[p] = "write"
    /\ \E ok \in BOOLEAN :
         IF ok
         THEN /\ fs' = [fs EXCEPT ![output_path[p]] =
                           WriteAt(@, pos[p], pdf[p][pos[p] + 1])]
              /\ pos' = Set(pos, p, pos[p] + 1)
              /\ lastWriter' = p
              /\ pc' = Set(pc, p, IF pos[p] + 1 = Len(pdf[p])
                                  THEN "returned" ELSE "write")
              /\ UNCHANGED exc
         ELSE /\ Raise(p, "OSError", "write", "No space left on device: ",
                       output_path[p])
              /\ UNCHANGED <<fs, pos, lastWriter>>
    /\ UNCHANGED <<world, input_path, output_path, md_text, body_html,
                   pygments_css, full_html, font_css, pdf, exit_code, stderr,
                   steps, ioLog, overlapped>>

\* main after convert returned: print(f"PDF written to: {output_path}")
MainReturn(p) ==
    /\ pc[p] = "returned"
    /\ entry[p] = "cli"
    /\ stderr' = Set(stderr, p, [prefix |-> "PDF written to: ",
                                 path |-> output_path[p]])
    /\ exit_code' = Set(exit_code, p, 0)
    /\ pc' = Set(pc, p, "exited")
    /\ UNCHANGED <<world, fs, input_path, output_path, md_text, body_html,
                   pygments_css, full_html, font_css, pdf, pos, exc, steps,
                   ioLog, lastWriter, overlapped>>

\* main's two except clauses
MainExcept(p) ==
    /\ pc[p] = "raised"
    /\ entry[p] = "cli"
    /\ stderr' = Set(stderr, p,
           [prefix |-> IF exc[p].type = "FileNotFoundError"
                       THEN "Error: " ELSE "Conversion failed: ",
            path |-> exc[p].path])
    /\ exit_code' = Set(exit_code, p, 1)
    /\ pc' = Set(pc, p, "exited")
    /\ UNCHANGED <<world, fs, input_path, output_path, md_text, body_html,
                   pygments_css, full_html, font_css, pdf, pos, exc, steps,
                   ioLog, lastWriter, overlapped>>

\* ---------------------------------------------------------- specifications
InitLocals(procs) ==
    /\ input_path = [p \in procs |-> NoPath]
    /\ output_path = [p \in procs |-> NoPath]
    /\ md_text = [p \in procs |-> <<>>]
    /\ body_html = [p \in procs |-> <<>>]
    /\ pygments_css = [p \in procs |-> <<>>]
    /\ full_html = [p \in procs |-> <<>>]
    /\ font_css = [p \in procs |-> <<>>]
    /\ pdf = [p \in procs |-> <<>>]
    /\ pos = [p \in procs |-> 0]
    /\ exc = [p \in procs |-> NoExc]
    /\ exit_code = [p \in procs |-> -1]
    /\ stderr = [p \in procs |-> NoOutput]
    /\ steps = [p \in procs |-> <<>>]
    /\ ioLog = [p \in procs |-> <<>>]
    /\ lastWriter = 0
    /\ overlapped = FALSE

CliArgs ==
    [input : Inputs,
     output : {OutputNone, OutputEmpty} \cup {OutputArg(o) : o \in OutputPaths},
     mode : Modes, size : Sizes, margin : Margins]

LibArgs ==
    [input : Inputs, output : {OutputArg(o) : o \in OutputPaths},
     mode : Modes, size : Sizes, margin : Margins]

\* One invocation: the command line, or a call of convert.
Init ==
    /\ \E c \in Contents : fs0 = MkFs(c, c)
    /\ fs = fs0
    /\ fontsDir = BundledFonts
    /\ entry \in [{1} -> {"cli", "lib"}]
    /\ args \in [{1} -> CliArgs \cup LibArgs]
    /\ entry[1] = "lib" => args[1] \in LibArgs
    /\ pc = [p \in {1} |-> IF entry[p] = "cli" THEN "main" ELSE "convert"]
    /\ InitLocals({1})

Next ==
    \/ \E p \in DOMAIN pc : MainParse(p)
    \/ \E p \in DOMAIN pc : ConvertEnter(p)
    \/ \E p \in DOMAIN pc : CheckExists(p)
    \/ \E p \in DOMAIN pc : ReadInput(p)
    \/ \E p \in DOMAIN pc : TransformStep(p)
    \/ \E p \in DOMAIN pc : PygmentsStep(p)
    \/ \E p \in DOMAIN pc : BuildStep(p)
    \/ \E p \in DOMAIN pc : FontStep(p)
    \/ \E p \in DOMAIN pc : RenderStep(p)
    \/ \E p \in DOMAIN pc : OpenOutput(p)
    \/ \E p \in DOMAIN pc : WriteChunk(p)
    \/ \E p \in DOMAIN pc : MainReturn(p)
    \/ \E p \in DOMAIN pc : MainExcept(p)

Spec == Init /\ [][Next]_vars

\* Two calls of convert, interleaved step by step.
ConcArgs ==
    [input : {InR, InAB, InMissing},
     output : {OutputArg(o) : o \in {OutOld, OutNew, OutNoDir}},
     mode : ValidModes, size : {"LETTER"}, margin : {5}]

InitConc ==
    /\ fs0 = MkFs(<<"para">>, <<"rawstyle", "para">>)
    /\ fs = fs0
    /\ fontsDir = BundledFonts
    /\ entry = [p \in {1, 2} |-> "lib"]
    /\ args \in [{1, 2} -> ConcArgs]
    /\ pc = [p \in {1, 2} |-> "convert"]
    /\ InitLocals({1, 2})

NextConc ==
    \/ \E p \in DOMAIN pc : ConvertEnter(p)
    \/ \E p \in DOMAIN pc : CheckExists(p)
    \/ \E p \in DOMAIN pc : ReadInput(p)
    \/ \E p \in DOMAIN pc : TransformStep(p)
    \/ \E p \in DOMAIN pc : PygmentsStep(p)
    \/ \E p \in DOMAIN pc : BuildStep(p)
    \/ \E p \in DOMAIN pc : FontStep(p)
    \/ \E p \in DOMAIN pc : RenderStep(p)
    \/ \E p \in DOMAIN pc : OpenOutput(p)
    \/ \E p \in DOMAIN pc : WriteChunk(p)

SpecConc == InitConc /\ [][NextConc]_vars

\* One invocation on one document, with any bundle of fonts.
InitFont ==
    /\ fs0 = MkFs(<<"para">>, <<"para">>)
    /\ fs = fs0
    /\ fontsDir \in SUBSET FontFiles
    /\ entry \in [{1} -> {"cli", "lib"}]
    /\ args = [p \in {1} |->
                 [input |-> InR, output |-> OutputArg(OutNew), mode |-> "LIGHT",
                  size |-> "LETTER", margin |-> 5]]
    /\ pc = [p \in {1} |-> IF entry[p] = "cli" THEN "main" ELSE "convert"]
    /\ InitLocals({1})

SpecFont == InitFont /\ [][Next]_vars

\* ----------------------------------------------------- reading the state
Procs == DOMAIN pc
HasRun(p, step) == \E i \in 1..Len(steps[p]) : steps[p][i] = step
Present(path) == path \in DOMAIN fs0 \/ path \in DirPaths
Failed(p) == exc[p] # NoExc
IsPrefix(s, t) == Len(s) <= Len(t) /\ s = SubSeq(t, 1, Len(s))

\* The elements of a document between two tags.
Between(doc, open, close) ==
    LET i == CHOOSE k \in 1..Len(doc) :
                 doc[k] = El(open) /\ \A j \in 1..(k - 1) : doc[j] # El(open)
        j == CHOOSE k \in 1..Len(doc) :
                 doc[k] = El(close) /\ \A m \in (k + 1)..Len(doc) : doc[m] # El(close)
    IN  SubSeq(doc, i + 1, j - 1)
HeadOf(doc) == Between(doc, "<head>", "</head>")
BodyOf(doc) == Between(doc, "<body>", "</body>")

IsStyle(e) == e.tag = "style"
HasToken(css, t) == \E i \in 1..Len(css) : css[i] = t
\* The stylesheets of the <style> elements among els, in order.
Styles(els) ==
    LET st == SelectSeq(els, IsStyle) IN [i \in 1..Len(st) |-> st[i].css]
\* The @page rules among els.
PageRules(els) == SelectSeq(Styles(els), LAMBDA css : HasToken(css, "@page"))

\* Reading a CSS rule back: the token after a key, and an inch quantity as a
\* number of tenths.
TokenAfter(css, key) == css[Find(css, key) + 1]
DigitValue(c) == (CHOOSE i \in 1..10 : DigitStr[i] = c) - 1
RECURSIVE ParseNat(_)
ParseNat(cs) ==
    IF cs = <<>> THEN 0
    ELSE 10 * ParseNat(SubSeq(cs, 1, Len(cs) - 1)) + DigitValue(cs[Len(cs)])
ParseTenths(cs) ==
    LET neg == cs # <<>> /\ cs[1] = "-"
        body == IF neg THEN Tail(cs) ELSE cs
        dot == Find(body, ".")
        whole == ParseNat(SubSeq(body, 1, dot - 1))
        frac == ParseNat(SubSeq(body, dot + 1, Len(body)))
    IN  IF neg THEN -(10 * whole + frac) ELSE 10 * whole + frac
MarginOf(css) ==
    ParseTenths(SubSeq(css, Find(css, "margin:") + 1, Find(css, "in") - 1))

\* -------------------------------------------------------------------- C1
\* C1: a call of convert whose input path does not exist fails with a
\* FileNotFoundError that carries the path, raised by the existence check
\* before anything else: the input is not read, no transformer or rasterizer
\* step runs, and the file system stays as it was.
C1_MissingInputFailsFirst ==
    \A p \in Procs :
        (~Present(args[p].input) /\ HasRun(p, "exists")) =>
            /\ exc[p].type = "FileNotFoundError"
            /\ exc[p].at = "exists"
            /\ exc[p].path = args[p].input
            /\ steps[p] = <<"exists">>
            /\ \A i \in 1..Len(ioLog[p]) : ioLog[p][i].op = "stat"
            /\ md_text[p] = <<>> /\ body_html[p] = <<>> /\ full_html[p] = <<>>
            /\ pdf[p] = <<>>
            /\ fs = fs0

C1_Witness ==
    \E p \in Procs :
        /\ ~Present(args[p].input)
        /\ pc[p] = "raised"
        /\ Present(Path(args[p].output.parent, args[p].output.name))

\* -------------------------------------------------------------------- C2
\* C2: main exits with status 0 exactly when convert returned normally, and
\* then prints the output path; it exits with status 1 on every failure of
\* convert, printing "Error: " when the failure is the missing input file and
\* "Conversion failed: " for every failure with another cause.
C2_ExitStatusAndMessage ==
    \A p \in Procs :
        (entry[p] = "cli" /\ pc[p] = "exited" /\ HasRun(p, "exists")) =>
            /\ (exit_code[p] = 0) <=> ~Failed(p)
            /\ Failed(p) => exit_code[p] = 1
            /\ ~Failed(p) => /\ stderr[p].prefix = "PDF written to: "
                             /\ stderr[p].path = output_path[p]
            /\ Failed(p) =>
                 stderr[p].prefix = IF ~Present(args[p].input)
                                    THEN "Error: " ELSE "Conversion failed: "

\* What main does do: status 0 and the output path after a normal return,
\* status 1 after any exception, "Error: " for every FileNotFoundError,
\* whichever step raised it, and "Conversion failed: " for any other type.
MainReportsByExceptionType ==
    \A p \in Procs :
        (entry[p] = "cli" /\ pc[p] = "exited" /\ HasRun(p, "exists")) =>
            /\ (exit_code[p] = 0) <=> ~Failed(p)
            /\ Failed(p) => exit_code[p] = 1
            /\ ~Failed(p) => /\ stderr[p].prefix = "PDF written to: "
                             /\ stderr[p].path = output_path[p]
            /\ Failed(p) =>
                 stderr[p].prefix = IF exc[p].type = "FileNotFoundError"
                                    THEN "Error: " ELSE "Conversion failed: "
            /\ ~Present(args[p].input) => stderr[p].prefix = "Error: "

\* -------------------------------------------------------------------- C3
\* C3: with a mode that is neither LIGHT nor DARK the stylesheet composer
\* fails with an InvalidConfiguration error and no document is assembled;
\* LIGHT selects the light colour block and DARK the dark one.
C3_UnknownModeRejected ==
    \A p \in Procs :
        /\ (args[p].mode \notin ValidModes /\ HasRun(p, "css")) =>
               /\ exc[p].type = "InvalidConfiguration"
               /\ full_html[p] = <<>>
        /\ (args[p].mode = "LIGHT" /\ HasRun(p, "build")) =>
               Styles(HeadOf(full_html[p]))[3] = GITHUB_CSS_LIGHT
        /\ (args[p].mode = "DARK" /\ HasRun(p, "build")) =>
               Styles(HeadOf(full_html[p]))[3] = GITHUB_CSS_DARK

\* What the composer does do: LIGHT selects the light block and the "default"
\* highlighting style, every other mode the dark block and "github-dark",
\* and no mode makes it fail.
ComposerFallsThroughToDark ==
    \A p \in Procs :
        HasRun(p, "build") =>
            /\ steps[p][Len(steps[p])] = "build" => ~Failed(p)
            /\ Styles(HeadOf(full_html[p]))[3] =
                   IF args[p].mode = "LIGHT" THEN GITHUB_CSS_LIGHT
                   ELSE GITHUB_CSS_DARK
            /\ Styles(HeadOf(full_html[p]))[4] =
                   <<".codehilite",
                     IF args[p].mode = "LIGHT" THEN "default" ELSE "github-dark">>

\* -------------------------------------------------------------------- C4
\* The @page rules among els are exactly one, with the size token of the
\* page size and the margin that was supplied, in inches.
OnePageRule(els, size, margin) ==
    /\ Len(PageRules(els)) = 1
    /\ size = "LETTER" => TokenAfter(PageRules(els)[1], "size:") = "letter"
    /\ size = "A4" => TokenAfter(PageRules(els)[1], "size:") = "A4"
    /\ MarginOf(PageRules(els)[1]) = margin
    /\ TokenAfter(PageRules(els)[1], "margin:") # "in"

\* C4 as stated: for every body fragment, mode and margin the assembled
\* document contains exactly one @page rule, with size "letter" for LETTER
\* and "A4" for A4 and the supplied margin, unchanged, in inches.
C4_OnePageRuleInDocument ==
    \A p \in Procs :
        HasRun(p, "build") =>
            OnePageRule(full_html[p], args[p].size, args[p].margin)

\* C4, amended: the <head> of the assembled document contains exactly one
\* @page rule, with size "letter" for LETTER and "A4" for A4 and the supplied
\* margin, unchanged, in inches; a body fragment that carries a <style>
\* element of its own is copied as it is and may add @page rules.
C4_OnePageRuleInHead ==
    \A p \in Procs :
        HasRun(p, "build") =>
            OnePageRule(HeadOf(full_html[p]), args[p].size, args[p].margin)

C4_Witness ==
    \E p \in Procs :
        /\ HasRun(p, "build")
        /\ args[p].size = "A4"
        /\ args[p].margin < 0
        /\ Len(PageRules(BodyOf(full_html[p]))) > 0

\* -------------------------------------------------------------------- C5
OtherMode(mode) == IF mode = "LIGHT" THEN "DARK" ELSE "LIGHT"

\* C5: two conversions that differ only in mode (LIGHT against DARK) both pass
\* the stylesheet and assembly steps and assemble documents with the same
\* body fragment, the same @page rule and the same structural layer, and with
\* distinct theme layers and distinct syntax-highlight layers.
C5_ModeChangesColoursOnly ==
    \A p \in Procs :
        (args[p].mode \in ValidModes /\ HasRun(p, "build")) =>
            LET other == OtherMode(args[p].mode)
                mine == full_html[p]
                theirs == BuildHtml(body_html[p], GetPygmentsCss(other), other,
                                    args[p].size, args[p].margin)
                a == Styles(HeadOf(mine))
                b == Styles(HeadOf(theirs))
            IN  /\ steps[p][Len(steps[p])] = "build" => ~Failed(p)
                /\ Len(a) = 4 /\ Len(b) = 4
                /\ BodyOf(mine) = BodyOf(theirs)
                /\ BodyOf(mine) = MdConvert(fs0[args[p].input])
                /\ a[1] = b[1]
                /\ a[2] = b[2]
                /\ a[3] # b[3]
                /\ a[4] # b[4]

C5_Witness ==
    \E p \in Procs :
        /\ args[p].mode = "DARK"
        /\ HasRun(p, "build")
        /\ body_html[p] # <<>>

ConvertOrder ==
    <<"exists", "read", "transform", "css", "build", "fonts", "render", "write">>

\* The steps run in the fixed order, each at most once, and a failure ends the
\* run at the step that failed, with the output untouched unless the write
\* step had begun.
OrderedNoRetry(p) ==
    /\ IsPrefix(steps[p], ConvertOrder)
    /\ Failed(p) => /\ steps[p] # <<>>
                    /\ steps[p][Len(steps[p])] = exc[p].at
                    /\ pc[p] \in {"raised", "exited"}
    /\ (Failed(p) /\ exc[p].at # "write") => fs = fs0
    /\ ~HasRun(p, "write") => fs = fs0
    /\ Cardinality({i \in 1..Len(ioLog[p]) : ioLog[p][i].op = "read"}) <= 1
    /\ Cardinality({i \in 1..Len(ioLog[p]) : ioLog[p][i].op = "write"}) <= 1
    /\ HasRun(p, "read") =>
           Cardinality({i \in 1..Len(ioLog[p]) : ioLog[p][i].op = "read"}) = 1

\* C7 as stated: the steps run in the order existence check, read, transform,
\* stylesheet build, assembly, rasterize and write, each at most once and
\* none after a failure; a failure before the write leaves the output file
\* unchanged; and the run performs one file read, at most one file write and
\* no other I/O.
C7_NoOtherIO ==
    \A p \in Procs :
        /\ OrderedNoRetry(p)
        /\ \A i \in 1..Len(ioLog[p]) :
               \/ ioLog[p][i].op \in {"stat", "read"}
                  /\ ioLog[p][i].path = input_path[p]
               \/ ioLog[p][i].op = "write" /\ ioLog[p][i].path = output_path[p]

\* C7, amended: as stated, except that the run's own file system operations
\* are four, in this order: the existence check of the input, one read of
\* the input, one scan of the bundled font directory (between the assembly
\* and the rasterizer), and at most one write of the output.
C7_OrderedStepsAndIO ==
    \A p \in Procs :
        /\ OrderedNoRetry(p)
        /\ IsPrefix(ioLog[p],
                    <<IoOp("stat", input_path[p]), IoOp("read", input_path[p]),
                      IoOp("scan", FontsDirPath), IoOp("write", output_path[p])>>)
        /\ HasRun(p, "fonts") <=>
               \E i \in 1..Len(ioLog[p]) : ioLog[p][i].op = "scan"

C7_Witness ==
    \E p \in Procs :
        /\ Failed(p)
        /\ exc[p].at = "render"
        /\ Len(ioLog[p]) = 3
        /\ output_path[p] = OutOld

\* -------------------------------------------------------------------- C8
\* C8: run without --output, main passes convert the input path with its
\* suffix replaced by ".pdf"; run with --output, it passes the given path.
C8_OutputPath ==
    \A p \in Procs :
        (entry[p] = "cli" /\ HasRun(p, "exists")) =>
            /\ ~args[p].output.given =>
                   /\ output_path[p].parent = args[p].input.parent
                   /\ output_path[p].name =
                          SubSeq(args[p].input.name, 1,
                                 Len(args[p].input.name)
                                 - Len(Suffix(args[p].input.name)))
                          \o PdfSuffix
            /\ args[p].output.given =>
                   output_path[p] = Path(args[p].output.parent, args[p].output.name)

\* What main does do: the given path when --output is a non-empty string, and
\* the input path with its suffix replaced by ".pdf" when --output is omitted
\* or empty.
OutputPathByTruthValue ==
    \A p \in Procs :
        (entry[p] = "cli" /\ HasRun(p, "exists")) =>
            LET out == args[p].output
                nonEmpty == out.given /\ (out.parent # "" \/ out.name # <<>>)
            IN  /\ nonEmpty => output_path[p] = Path(out.parent, out.name)
                /\ ~nonEmpty =>
                       /\ output_path[p].parent = args[p].input.parent
                       /\ output_path[p].name =
                              SubSeq(args[p].input.name, 1,
                                     Len(args[p].input.name)
                                     - Len(Suffix(args[p].input.name)))
                              \o PdfSuffix
                /\ args[p].input = InR =>
                       (~nonEmpty => output_path[p].name = <<"r">> \o PdfSuffix)

\* -------------------------------------------------------------------- C9
\* What a call of convert renders when it runs alone: a function of its own
\* arguments and of the files as they were.
AlonePdf(p) ==
    Rasterize(BuildHtml(MdConvert(fs0[args[p].input]),
                        GetPygmentsCss(args[p].mode), args[p].mode,
                        args[p].size, args[p].margin),
              args[p].input.parent, FontFaceCss(fontsDir))

\* The results a call of convert can have when it runs alone.
AloneCanFail(p, type, at) ==
    \/ at = "exists" /\ type = "FileNotFoundError" /\ ~Present(args[p].input)
    \/ at = "render" /\ type = "RenderError" /\ Present(args[p].input)
    \/ at = "write" /\ type = "FileNotFoundError" /\ Present(args[p].input)
       /\ args[p].output.parent \notin ExistingDirs
    \/ at = "write" /\ type = "OSError" /\ Present(args[p].input)
       /\ args[p].output.parent \in ExistingDirs

SameOutput(p, q) == args[p].output = args[q].output
BothReturned == \A p \in Procs : pc[p] = "returned"

\* Each invocation computes from its own arguments alone, and one that shares
\* its output path with no other leaves there what it would have alone.
Isolated(p) ==
    /\ md_text[p] # <<>> => md_text[p] = fs0[args[p].input]
    /\ pdf[p] # <<>> => pdf[p] = AlonePdf(p)
    /\ Failed(p) => AloneCanFail(p, exc[p].type, exc[p].at)
    /\ pc[p] = "returned" => Present(args[p].input)
                             /\ args[p].output.parent \in ExistingDirs
    /\ (pc[p] = "returned" /\ \A q \in Procs \ {p} : ~SameOutput(p, q)) =>
           fs[output_path[p]] = AlonePdf(p)
    /\ (~HasRun(p, "write") /\ \A q \in Procs \ {p} : ~SameOutput(p, q)
        /\ output_path[p] # NoPath) =>
           (output_path[p] \in DOMAIN fs <=> output_path[p] \in DOMAIN fs0)

\* C9 as stated: interleaved invocations on different paths each end as if
\* alone, and of two invocations that write the same output path the file
\* ends up holding the complete output of the one that wrote last.
C9_LastWriterWins ==
    /\ \A p \in Procs : Isolated(p)
    /\ \A p, q \in Procs :
           (p # q /\ SameOutput(p, q) /\ BothReturned) =>
               fs[output_path[p]] = pdf[lastWriter]

\* C9, amended: interleaved invocations on different paths each end as if
\* alone; of two invocations that write the same output path, without
\* locking, the file ends up holding the complete output of the one that
\* wrote last when neither opened the file while the other was still writing
\* it, and otherwise a mixture, chunk by chunk, of the two outputs.
C9_LastWriterWinsUnlessOverlapped ==
    /\ \A p \in Procs : Isolated(p)
    /\ \A p, q \in Procs :
           (p # q /\ SameOutput(p, q) /\ BothReturned) =>
               /\ ~overlapped => fs[output_path[p]] = pdf[lastWriter]
               /\ Len(fs[output_path[p]]) = NumChunks
               /\ \A k \in 1..NumChunks :
                      fs[output_path[p]][k] \in {pdf[p][k], pdf[q][k]}

C9_Witness ==
    \E p, q \in Procs :
        /\ p # q /\ SameOutput(p, q) /\ BothReturned
        /\ pdf[p] # pdf[q]
        /\ ~overlapped
        /\ lastWriter = p

\* A mixture is reachable: the file holds a chunk of each invocation.
C9_MixtureWitness ==
    \E p, q \in Procs :
        /\ p # q /\ SameOutput(p, q) /\ BothReturned
        /\ fs[output_path[p]] # pdf[p]
        /\ fs[output_path[p]] # pdf[q]

\* ------------------------------------------------------------------- C10
\* Reading the font layer back: its rules, and the text between the n-th and
\* the next quotation mark of a rule.
RECURSIVE SplitLines(_)
SplitLines(css) ==
    IF css = <<>> THEN <<>>
    ELSE LET i == Find(css, "NEWLINE")
         IN  IF i = 0 THEN <<css>>
             ELSE <<SubSeq(css, 1, i - 1)>>
                  \o SplitLines(SubSeq(css, i + 1, Len(css)))

QuoteIdx(rule) == {i \in 1..Len(rule) : rule[i] = "DQUOTE"}
NthQuote(rule, n) ==
    CHOOSE i \in QuoteIdx(rule) :
        Cardinality({j \in QuoteIdx(rule) : j < i}) = n - 1
Quoted(rule, n) == SubSeq(rule, NthQuote(rule, n) + 1, NthQuote(rule, n + 1) - 1)

IsTtfName(n) == Len(n) > 4 /\ SubSeq(n, Len(n) - 3, Len(n)) = <<".", "t", "t", "f">>
NoExtension(n) == SubSeq(n, 1, Len(n) - 4)
HasEmojiAnyCase(family) ==
    \E i \in 0..(Len(family) - 5) :
        /\ family[i + 1] \in {"e", "E"}
        /\ family[i + 2] \in {"m", "M"}
        /\ family[i + 3] \in {"o", "O"}
        /\ family[i + 4] \in {"j", "J"}
        /\ family[i + 5] \in {"i", "I"}

\* C10: the font layer holds exactly one @font-face rule per .ttf file of the
\* bundled font directory, in sorted file order; a rule's family is the part
\* of the file name without extension before its first hyphen, its source is
\* the file's location, and it carries the fixed emoji unicode-range exactly
\* when the family contains "emoji" in any letter case.
C10_FontFaceRules ==
    \A p \in Procs :
        HasRun(p, "fonts") =>
            LET rules == SplitLines(font_css[p])
                file(i) == SubSeq(Quoted(rules[i], 3), 4, Len(Quoted(rules[i], 3)))
                family(i) == Quoted(rules[i], 1)
            IN  /\ Len(rules) = Cardinality({n \in fontsDir : IsTtfName(n)})
                /\ \A i \in 1..Len(rules) :
                       /\ rules[i][1] = "@font-face"
                       /\ Cardinality({k \in 1..Len(rules[i]) :
                                          rules[i][k] = "@font-face"}) = 1
                       /\ file(i) \in fontsDir /\ IsTtfName(file(i))
                       /\ SubSeq(Quoted(rules[i], 3), 1, 3)
                              = <<"file://", "_FONTS_DIR", "/">>
                       /\ IsPrefix(family(i), NoExtension(file(i)))
                       /\ ~HasToken(family(i), "-")
                       /\ \/ family(i) = NoExtension(file(i))
                          \/ NoExtension(file(i))[Len(family(i)) + 1] = "-"
                       /\ HasToken(rules[i], "unicode-range:")
                              <=> HasEmojiAnyCase(family(i))
                       /\ HasToken(rules[i], "unicode-range:") =>
                              TokenAfter(rules[i], "unicode-range:")
                                  = EMOJI_UNICODE_RANGE
                /\ \A i \in 1..(Len(rules) - 1) : StrLess(file(i), file(i + 1))

C10_Witness ==
    \E p \in Procs :
        /\ HasRun(p, "fonts")
        /\ fontsDir = FontFiles
        /\ Len(SplitLines(font_css[p])) = 6

====
